---- MODULE Spec2Model ----
(***************************************************************************)
(* Model of the financial performance dashboard: the metrics core         *)
(* (FinancialMetricsCalculator and create_comparison_dataframe in          *)
(* src/src/data_processing.py), the disk cache (src/src/utils.py), the     *)
(* statement download (src/src/data_extraction.py), the page's data load   *)
(* (src/app.py) and the health score (src/src/visualizations.py).          *)
(* Statements are pandas DataFrames (rows = line items, columns = fiscal   *)
(* periods); metric series are pandas Series.                              *)
(*                                                                         *)
(* Numbers are exact rationals <<n, d>> in lowest terms (d > 0), extended  *)
(* with the IEEE-754 specials that pandas produces: <<0,0>> is NaN,        *)
(* <<1,0>> is +inf and <<-1,0>> is -inf.  Binary rounding of floats is     *)
(* not modelled.                                                           *)
(***************************************************************************)
EXTENDS Integers, Sequences, FiniteSets, TLC

VARIABLES companies_data, fill_method, result,
          now, disk, written, loaded,
          upstream, fetched,
          memo, selected_tickers, quarterly_data, served, events

\* The metrics core: the statements handed to it and the value it returned.
metricsVars == <<companies_data, fill_method, result>>
\* utils: the wall clock, the files under data/cache, the last write to each
\* file (a history variable) and the last load_cached_data.
cacheVars == <<now, disk, written, loaded>>
\* data_extraction: the vendor's failures and the last fetch_multiple_companies.
fetchVars == <<upstream, fetched>>
\* app: st.cache_data's entries, the sidebar widgets, the data the page shows,
\* and the number of user events so far.
appVars == <<memo, selected_tickers, quarterly_data, served, events>>

vars == <<metricsVars, cacheVars, fetchVars, appVars>>

\* ------------------------------------------------------------------ bounds
\* Fiscal periods are the labels 1..MaxPeriod (a larger label is more recent).
MaxPeriod == 2
\* A single-company input is the complete statement set with at most MaxEdits edits.
MaxEdits == 1
\* At most MaxSelected of the configured companies are selected at once.
MaxSelected == 2

Periods == 1..MaxPeriod

\* --------------------------------------------------------------- numbers
NaN == <<0, 0>>
PosInf == <<1, 0>>
NegInf == <<-1, 0>>

Abs(n) == IF n < 0 THEN -n ELSE n

Sgn(n) == IF n < 0 THEN -1 ELSE IF n > 0 THEN 1 ELSE 0

RECURSIVE GCD(_, _)
GCD(a, b) == IF b = 0 THEN a ELSE GCD(b, a % b)

\* n/d for d >= 0, in lowest terms; d = 0 gives NaN or a signed infinity.
Norm(n, d) ==
    IF d = 0 THEN <<Sgn(n), 0>>
    ELSE LET g == GCD(Abs(n), d) IN <<n \div g, d \div g>>

Num(k) == <<k, 1>>

IsNaN(x) == x = NaN

IsFinite(x) == x[2] > 0

\* Float division: x / 0 is a signed infinity for x # 0, and 0 / 0 is NaN.
Div(x, y) ==
    IF y[1] < 0 THEN Norm(-(x[1] * y[2]), x[2] * (-y[1]))
    ELSE Norm(x[1] * y[2], x[2] * y[1])

Mul(x, y) == Norm(x[1] * y[1], x[2] * y[2])

Add(x, y) ==
    IF x[2] = 0 /\ y[2] = 0
    THEN (IF x = y THEN x ELSE NaN)
    ELSE Norm(x[1] * y[2] + y[1] * x[2], x[2] * y[2])

Sub(x, y) == Add(x, <<-y[1], y[2]>>)

\* ------------------------------------------------------- pandas containers
Range(s) == {s[i] : i \in 1..Len(s)}

SetMax(S) == CHOOSE x \in S : \A y \in S : y <= x

RECURSIVE SortDesc(_)
SortDesc(S) == IF S = {} THEN <<>> ELSE <<SetMax(S)>> \o SortDesc(S \ {SetMax(S)})

RECURSIVE SortAsc(_)
SortAsc(S) == IF S = {} THEN <<>> ELSE SortAsc(S \ {SetMax(S)}) \o <<SetMax(S)>>

NoVals == [p \in {} |-> NaN]

\* pd.Series(): no labels.
EmptySeries == [exc |-> "none", index |-> <<>>, val |-> NoVals]

\* An exception in flight, in place of a Series or a DataFrame.
Raised(e) == [exc |-> e, index |-> <<>>, val |-> NoVals]

\* pd.DataFrame(): no rows, no columns.
EmptyFrame == [columns |-> <<>>, data |-> [r \in {} |-> NoVals]]

\* Series value at a label, NaN where the label is missing (reindexing).
At(s, p) == IF p \in DOMAIN s.val THEN s.val[p] ELSE NaN

\* Loc with an absent label read as a row of NaN (df.reindex) instead of raising.
LocOrNaN(df, label) ==
    IF label \in DOMAIN df.data
    THEN [exc |-> "none", index |-> df.columns, val |-> df.data[label]]
    ELSE [exc |-> "none", index |-> df.columns,
          val |-> [p \in Range(df.columns) |-> NaN]]

\* df.loc[label]: the row as a Series over the columns, KeyError when absent.
Loc(df, label) ==
    IF label \in DOMAIN df.data
    THEN [exc |-> "none", index |-> df.columns, val |-> df.data[label]]
    ELSE Raised("KeyError")

\* Index alignment of a binary operation: identical indexes are kept, otherwise
\* the outer join (the union, sorted).
AlignIndex(i1, i2) == IF i1 = i2 THEN i1 ELSE SortAsc(Range(i1) \cup Range(i2))

\* a / b with the operands matched by position instead of by label.
SeriesDivPositional(a, b) ==
    IF a.exc # "none" THEN a
    ELSE IF b.exc # "none" THEN b
    ELSE [exc |-> "none", index |-> a.index,
          val |-> [p \in Range(a.index) |->
                      LET i == CHOOSE j \in 1..Len(a.index) : a.index[j] = p
                      IN IF i <= Len(b.index)
                         THEN Div(a.val[p], b.val[b.index[i]]) ELSE NaN]]

\* a / b on Series: label-aligned, an operand that raised propagates.
SeriesDiv(a, b) ==
    IF a.exc # "none" THEN a
    ELSE IF b.exc # "none" THEN b
    ELSE LET idx == AlignIndex(a.index, b.index)
         IN [exc |-> "none", index |-> idx,
             val |-> [p \in Range(idx) |-> Div(At(a, p), At(b, p))]]

\* a + b on Series.
SeriesAdd(a, b) ==
    IF a.exc # "none" THEN a
    ELSE IF b.exc # "none" THEN b
    ELSE LET idx == AlignIndex(a.index, b.index)
         IN [exc |-> "none", index |-> idx,
             val |-> [p \in Range(idx) |-> Add(At(a, p), At(b, p))]]

\* s * k for a scalar k.
SeriesMul(s, k) ==
    IF s.exc # "none" THEN s
    ELSE [exc |-> "none", index |-> s.index,
          val |-> [p \in Range(s.index) |-> Mul(s.val[p], Num(k))]]

\* Forward fill by position: a NaN takes the last non-NaN value before it.
Ffill(s) ==
    LET n == Len(s.index)
        filled(i) ==
            LET js == {j \in 1..i : ~IsNaN(s.val[s.index[j]])}
            IN IF js = {} THEN NaN ELSE s.val[s.index[SetMax(js)]]
    IN [exc |-> "none", index |-> s.index,
        val |-> [p \in Range(s.index) |->
                    filled(CHOOSE i \in 1..n : s.index[i] = p)]]

\* s.pct_change(periods=-1): data / data.shift(-1) - 1, by position: the value at
\* position i is compared with the value stored at position i + 1, and the last
\* position has nothing to compare with.  Whether NaN is forward-filled first is
\* the library default of the installed pandas (fm).
PctChangeNext(s, fm) ==
    IF s.exc # "none" THEN s
    ELSE LET data == IF fm = "pad" THEN Ffill(s) ELSE s
             n == Len(s.index)
             shifted(i) == IF i + 1 <= n THEN data.val[s.index[i + 1]] ELSE NaN
         IN [exc |-> "none", index |-> s.index,
             val |-> [p \in Range(s.index) |->
                 LET i == CHOOSE j \in 1..n : s.index[j] = p
                 IN Sub(Div(data.val[p], shifted(i)), Num(1))]]

\* A try body without its handler: what it raises reaches the caller.
TryReraise(body) == body

\* try: ... except Exception: return pd.Series()
TryExcept(body) == IF body.exc # "none" THEN EmptySeries ELSE body

\* ---------------------------------------------- FinancialMetricsCalculator
\* __init__: the calculator keeps the three statements it was given.
Calculator(income_stmt, balance_sheet, cash_flow) ==
    [income_stmt |-> income_stmt, balance_sheet |-> balance_sheet,
     cash_flow |-> cash_flow]

calculate_revenue_growth(self) ==
    TryExcept(
        LET revenue == Loc(self.income_stmt, "Total Revenue")
        IN SeriesMul(PctChangeNext(revenue, fill_method), 100))

calculate_gross_margin(self) ==
    TryExcept(
        LET revenue == Loc(self.income_stmt, "Total Revenue")
            gross_profit == Loc(self.income_stmt, "Gross Profit")
        IN IF revenue.exc # "none" THEN revenue
           ELSE SeriesMul(SeriesDiv(gross_profit, revenue), 100))

calculate_operating_margin(self) ==
    TryExcept(
        LET revenue == Loc(self.income_stmt, "Total Revenue")
            operating_income == Loc(self.income_stmt, "Operating Income")
        IN IF revenue.exc # "none" THEN revenue
           ELSE SeriesMul(SeriesDiv(operating_income, revenue), 100))

calculate_net_margin(self) ==
    TryExcept(
        LET revenue == Loc(self.income_stmt, "Total Revenue")
            net_income == Loc(self.income_stmt, "Net Income")
        IN IF revenue.exc # "none" THEN revenue
           ELSE SeriesMul(SeriesDiv(net_income, revenue), 100))

\* Free cash flow with the capital expenditure subtracted.
calculate_free_cash_flow_minus(self) ==
    TryExcept(
        LET operating_cf == Loc(self.cash_flow, "Operating Cash Flow")
            capex == Loc(self.cash_flow, "Capital Expenditure")
            idx == AlignIndex(operating_cf.index, capex.index)
        IN IF operating_cf.exc # "none" THEN operating_cf
           ELSE IF capex.exc # "none" THEN capex
           ELSE [exc |-> "none", index |-> idx,
                 val |-> [p \in Range(idx) |->
                             Sub(At(operating_cf, p), At(capex, p))]])

calculate_free_cash_flow(self) ==
    TryExcept(
        LET operating_cf == Loc(self.cash_flow, "Operating Cash Flow")
            capex == Loc(self.cash_flow, "Capital Expenditure")
        IN SeriesAdd(operating_cf, capex))

calculate_current_ratio(self) ==
    TryExcept(
        LET current_assets == Loc(self.balance_sheet, "Current Assets")
            current_liabilities == Loc(self.balance_sheet, "Current Liabilities")
        IN SeriesDiv(current_assets, current_liabilities))

calculate_debt_to_equity(self) ==
    TryExcept(
        LET total_debt == Loc(self.balance_sheet, "Total Debt")
            stockholders_equity == Loc(self.balance_sheet, "Stockholders Equity")
        IN SeriesDiv(total_debt, stockholders_equity))

calculate_roe(self) ==
    TryExcept(
        LET net_income == Loc(self.income_stmt, "Net Income")
            equity == Loc(self.balance_sheet, "Stockholders Equity")
        IN SeriesMul(SeriesDiv(net_income, equity), 100))

calculate_roa(self) ==
    TryExcept(
        LET net_income == Loc(self.income_stmt, "Net Income")
            total_assets == Loc(self.balance_sheet, "Total Assets")
        IN SeriesMul(SeriesDiv(net_income, total_assets), 100))

\* The keys of the metrics dict, in insertion order.
METRICS == <<"Revenue Growth (%)", "Gross Margin (%)", "Operating Margin (%)",
             "Net Margin (%)", "Free Cash Flow", "Current Ratio",
             "Debt to Equity", "ROE (%)", "ROA (%)">>

MetricNames == Range(METRICS)

\* The metrics dict of calculate_all_metrics: one call per key.
MetricsDict(self) ==
    [m \in MetricNames |->
        CASE m = "Revenue Growth (%)" -> calculate_revenue_growth(self)
          [] m = "Gross Margin (%)" -> calculate_gross_margin(self)
          [] m = "Operating Margin (%)" -> calculate_operating_margin(self)
          [] m = "Net Margin (%)" -> calculate_net_margin(self)
          [] m = "Free Cash Flow" -> calculate_free_cash_flow(self)
          [] m = "Current Ratio" -> calculate_current_ratio(self)
          [] m = "Debt to Equity" -> calculate_debt_to_equity(self)
          [] m = "ROE (%)" -> calculate_roe(self)
          [] m = "ROA (%)" -> calculate_roa(self)]

NoCols == [m \in MetricNames |-> NoVals]

RaisedFrame(e) == [exc |-> e, index |-> <<>>, col |-> NoCols]

\* DataFrameOfSeries with the rows of an inner join: only the periods that every
\* Series has.
DataFrameOfSeriesInner(metrics) ==
    LET labels == {p \in UNION {Range(metrics[m].index) : m \in DOMAIN metrics} :
                      \A m \in DOMAIN metrics : p \in Range(metrics[m].index)}
    IN [exc |-> "none", index |-> SortAsc(labels),
        col |-> [m \in DOMAIN metrics |-> [p \in labels |-> At(metrics[m], p)]]]

\* pd.DataFrame(dict of Series): the row index is the union of the Series'
\* indexes (outer join), every Series is reindexed to it, missing cells are NaN.
\* A call that raised while the dict was built ends the construction.
DataFrameOfSeries(metrics) ==
    LET bad == {i \in 1..Len(METRICS) : metrics[METRICS[i]].exc # "none"}
    IN IF bad # {}
       THEN RaisedFrame(metrics[METRICS[CHOOSE i \in bad : \A j \in bad : i <= j]].exc)
       ELSE LET labels == UNION {Range(metrics[m].index) : m \in MetricNames}
            IN [exc |-> "none", index |-> SortAsc(labels),
                col |-> [m \in MetricNames |->
                            [p \in labels |-> At(metrics[m], p)]]]

\* sort_index with the direction ignored: always oldest-first.
SortIndexAscending(df, ascending) ==
    IF df.exc # "none" THEN df
    ELSE [df EXCEPT !.index = SortAsc(Range(df.index))]

\* df.sort_index(ascending=...): rows reordered by label, cells untouched.
SortIndex(df, ascending) ==
    IF df.exc # "none" THEN df
    ELSE [df EXCEPT !.index =
            IF ascending THEN SortAsc(Range(df.index)) ELSE SortDesc(Range(df.index))]

\* df.dropna(): the rows holding a NaN are removed.
DropNa(df) ==
    LET keep == {p \in Range(df.index) : \A m \in DOMAIN df.col : ~IsNaN(df.col[m][p])}
    IN [exc |-> df.exc, index |-> SortDesc(keep),
        col |-> [m \in DOMAIN df.col |-> [p \in keep |-> df.col[m][p]]]]

\* calculate_all_metrics that also drops the incomplete rows.
calculate_all_metrics_dropna(self) ==
    LET metrics == MetricsDict(self)
        df == DataFrameOfSeries(metrics)
    IN DropNa(SortIndex(df, FALSE))

calculate_all_metrics(self) ==
    LET metrics == MetricsDict(self)
        df == DataFrameOfSeries(metrics)
    IN SortIndex(df, FALSE)

\* df.empty: no rows (the nine columns are always there).
FrameEmpty(df) == df.index = <<>>

\* metrics.iloc[0].to_dict() with latest['Company'] = ticker.
LatestRow(metrics, ticker) ==
    [k \in MetricNames \cup {"Company"} |->
        IF k = "Company" THEN ticker ELSE metrics.col[k][metrics.index[1]]]

\* The loop body without the emptiness test: a company with no metrics gets a
\* row of NaN.
ComparisonStepPlaceholder(comparison_data, ticker, data) ==
    LET calculator == Calculator(data["income_statement"], data["balance_sheet"],
                                 data["cash_flow"])
        metrics == calculate_all_metrics(calculator)
    IN [comparison_data EXCEPT
          !.rows = Append(@,
              IF FrameEmpty(metrics)
              THEN [k \in MetricNames \cup {"Company"} |->
                       IF k = "Company" THEN ticker ELSE NaN]
              ELSE LatestRow(metrics, ticker))]

\* One iteration of the loop of create_comparison_dataframe over
\* companies_data.items(): comparison_data after the entry of ticker.
ComparisonStep(comparison_data, ticker, data) ==
    LET calculator == Calculator(data["income_statement"], data["balance_sheet"],
                                 data["cash_flow"])
        metrics == calculate_all_metrics(calculator)
    IN IF comparison_data.exc # "none" THEN comparison_data
       ELSE IF metrics.exc # "none" THEN [exc |-> metrics.exc, rows |-> <<>>]
       ELSE IF ~FrameEmpty(metrics)
            THEN [comparison_data EXCEPT
                    !.rows = Append(@, LatestRow(metrics, ticker))]
            ELSE comparison_data

RECURSIVE ComparisonLoop(_, _, _)
ComparisonLoop(cd, i, comparison_data) ==
    IF i > Len(cd.keys) THEN comparison_data
    ELSE ComparisonLoop(cd, i + 1,
            ComparisonStep(comparison_data, cd.keys[i], cd.items[cd.keys[i]]))

\* The comparison table with each NaN cell filled from the row above it
\* (DataFrame.ffill()).
RECURSIVE FfillRows(_, _)
FfillRows(rows, i) ==
    IF i > Len(rows) THEN rows
    ELSE FfillRows([rows EXCEPT ![i] =
                       [k \in DOMAIN rows[i] |->
                           IF k # "Company" /\ i > 1 /\ IsNaN(rows[i][k])
                           THEN rows[i - 1][k] ELSE rows[i][k]]], i + 1)

create_comparison_dataframe_ffill(cd) ==
    LET df == ComparisonLoop(cd, 1, [exc |-> "none", rows |-> <<>>])
    IN [df EXCEPT !.rows = FfillRows(@, 1)]

\* create_comparison_dataframe(companies_data): pd.DataFrame(comparison_data),
\* one row per appended dict, in order.  cd is a dict: keys in insertion order.
create_comparison_dataframe(cd) ==
    ComparisonLoop(cd, 1, [exc |-> "none", rows |-> <<>>])

\* ------------------------------------------------------------------ inputs
\* The line items the calculator reads from each statement.
IncomeRows == {"Total Revenue", "Gross Profit", "Operating Income", "Net Income"}

BalanceRows == {"Current Assets", "Current Liabilities", "Total Debt",
                "Stockholders Equity", "Total Assets"}

CashRows == {"Operating Cash Flow", "Capital Expenditure"}

StatementKeys == {"income_statement", "balance_sheet", "cash_flow"}

RowsOf(k) ==
    CASE k = "income_statement" -> IncomeRows
      [] k = "balance_sheet" -> BalanceRows
      [] k = "cash_flow" -> CashRows

\* The value of a line item in period p of the complete statement set: distinct
\* per row and growing with the period; capital expenditure is stored negative.
BaseVal(row, p) ==
    CASE row = "Total Revenue" -> 4 + p
      [] row = "Gross Profit" -> 2 + p
      [] row = "Operating Income" -> 1 + p
      [] row = "Net Income" -> p
      [] row = "Current Assets" -> 3 + p
      [] row = "Current Liabilities" -> 1 + p
      [] row = "Total Debt" -> 2 + p
      [] row = "Stockholders Equity" -> 5 + p
      [] row = "Total Assets" -> 7 + p
      [] row = "Operating Cash Flow" -> 2 + 2 * p
      [] row = "Capital Expenditure" -> -p

\* A statement holding the given rows over the given period columns (in order).
Frame(rows, cols) ==
    [columns |-> cols,
     data |-> [r \in rows |-> [p \in Range(cols) |-> Num(BaseVal(r, p))]]]

\* Periods hi, hi-1, ..., lo: the newest-first column order of the data vendor.
RECURSIVE Window(_, _)
Window(lo, hi) == IF hi < lo THEN <<>> ELSE <<hi>> \o Window(lo, hi - 1)

\* Every column order: the sequences of distinct periods (none included).
ColOrders ==
    {c \in UNION {[1..n -> Periods] : n \in 0..MaxPeriod} :
        \A i, j \in 1..Len(c) : c[i] = c[j] => i = j}

\* The complete statement set of one company: every row, every period.
CompleteData ==
    [k \in StatementKeys |-> Frame(RowsOf(k), Window(1, MaxPeriod))]

\* One edit of a statement set: a cell set to zero or NaN, a row dropped, the
\* columns reordered or restricted, or the statement emptied.
Edits ==
    [kind : {"cell"}, stmt : StatementKeys, row : IncomeRows \cup BalanceRows \cup CashRows,
     p : Periods, v : {Num(0), NaN}, cols : {<<>>}]
    \cup [kind : {"drop"}, stmt : StatementKeys, row : IncomeRows \cup BalanceRows \cup CashRows,
          p : {1}, v : {NaN}, cols : {<<>>}]
    \cup [kind : {"cols"}, stmt : StatementKeys, row : {""}, p : {1}, v : {NaN},
          cols : ColOrders]
    \cup [kind : {"empty"}, stmt : StatementKeys, row : {""}, p : {1}, v : {NaN},
          cols : {<<>>}]

ApplyToFrame(e, df) ==
    CASE e.kind = "cell" ->
            IF e.row \in DOMAIN df.data /\ e.p \in Range(df.columns)
            THEN [df EXCEPT !.data[e.row][e.p] = e.v] ELSE df
      [] e.kind = "drop" ->
            [df EXCEPT !.data = [r \in (DOMAIN df.data) \ {e.row} |-> df.data[r]]]
      [] e.kind = "cols" ->
            IF Range(e.cols) \subseteq Range(df.columns)
            THEN [columns |-> e.cols,
                  data |-> [r \in DOMAIN df.data |->
                                [p \in Range(e.cols) |-> df.data[r][p]]]]
            ELSE df
      [] e.kind = "empty" -> EmptyFrame

ApplyEdit(e, d) == [d EXCEPT ![e.stmt] = ApplyToFrame(e, d[e.stmt])]

RECURSIVE Edited(_)
Edited(k) ==
    IF k = 0 THEN {CompleteData}
    ELSE LET prev == Edited(k - 1)
         IN prev \cup {ApplyEdit(e, d) : e \in Edits, d \in prev}

\* Single-company inputs: the complete statement set with at most MaxEdits edits.
EditedData == Edited(MaxEdits)

\* An income statement with a zero revenue in the latest period and an undefined
\* net income in the earliest.
DegenerateIncome ==
    [Frame(IncomeRows, Window(1, MaxPeriod)) EXCEPT
        !.data["Total Revenue"][MaxPeriod] = Num(0),
        !.data["Net Income"][1] = NaN]

\* A balance sheet with negative current liabilities and a negative equity in
\* the latest period.
DegenerateBalance ==
    [Frame(BalanceRows, Window(1, MaxPeriod)) EXCEPT
        !.data["Current Liabilities"][MaxPeriod] = Num(-2),
        !.data["Stockholders Equity"][MaxPeriod] = Num(-4)]

Statements(income, balance, cash) ==
    [k \in StatementKeys |->
        CASE k = "income_statement" -> income
          [] k = "balance_sheet" -> balance
          [] k = "cash_flow" -> cash]

\* Multi-company inputs: what a download can return for one company.  Nothing;
\* the revenue row over one period; the income statement alone over one period or
\* over every period; the balance sheet and the cash flow alone; all three, with
\* the income statement complete, degenerate, or one period long; all three
\* with a degenerate balance sheet.
ShapedData ==
    LET balance == Frame(BalanceRows, Window(1, MaxPeriod))
        cash == Frame(CashRows, Window(1, MaxPeriod))
        income == Frame(IncomeRows, Window(1, MaxPeriod))
        income1 == Frame(IncomeRows, Window(1, 1))
    IN {Statements(EmptyFrame, EmptyFrame, EmptyFrame),
        Statements(Frame({"Total Revenue"}, Window(1, 1)), EmptyFrame, EmptyFrame),
        Statements(income1, EmptyFrame, EmptyFrame),
        Statements(income, EmptyFrame, EmptyFrame),
        Statements(EmptyFrame, balance, cash),
        Statements(income, balance, cash),
        Statements(DegenerateIncome, balance, cash),
        Statements(income1, balance, cash),
        Statements(income, DegenerateBalance, cash)}

\* The configured companies, in the order of config.COMPANIES.
COMPANIES == <<"AAPL", "MSFT", "GOOGL">>

\* The multiselect: distinct configured tickers, in the order they were picked.
Selections ==
    {s \in UNION {[1..n -> Range(COMPANIES)] : n \in 1..MaxSelected} :
        \A i, j \in 1..Len(s) : s[i] = s[j] => i = j}

\* The default of pct_change's fill_method differs between pandas releases.
FillMethods == {"pad", "none"}

NoResult == [op |-> "none", ticker |-> "", value |-> EmptySeries]

\* ------------------------------------------------------ utils: the disk cache
\* Wall-clock time and ages are counted in hours.
\* Python's None, as a value that compares with any cached data.
None == [none |-> TRUE]

\* No file under data/cache.
NoFiles == [f \in {} |-> [data |-> None, timestamp |-> 0]]

\* open(cache_path, 'wb') and pickle.dump({'data', 'timestamp'}): the files under
\* data/cache after the call (the cache_duration_hours argument is not used).
cache_data(data, cache_file) ==
    [f \in DOMAIN disk \cup {cache_file} |->
        IF f = cache_file THEN [data |-> data, timestamp |-> now] ELSE disk[f]]

\* The expiry test with the boundary age accepted.
load_cached_data_inclusive(cache_file, cache_duration_hours) ==
    IF cache_file \notin DOMAIN disk THEN None
    ELSE LET cached == disk[cache_file]
             age == now - cached.timestamp
         IN IF age <= cache_duration_hours THEN cached.data ELSE None

\* The cached data when the file exists and is younger than the duration,
\* None otherwise.
load_cached_data(cache_file, cache_duration_hours) ==
    IF cache_file \notin DOMAIN disk THEN None
    ELSE LET cached == disk[cache_file]
             age == now - cached.timestamp
         IN IF age < cache_duration_hours THEN cached.data ELSE None

\* ------------------------------------------- data_extraction: the download
\* The four entries of get_all_statements.
Entries == StatementKeys \cup {"company_info"}

\* stock.info of a ticker, and {}.
CompanyInfo(ticker) == [symbol |-> ticker]
EmptyInfo == [k \in {} |-> ""]

\* yf.Ticker(ticker): no request is made yet.
FinancialDataExtractor(ticker) == [ticker |-> ticker]

\* A property of the yfinance Ticker: the request behind it raises when the
\* vendor fails for this ticker and entry; otherwise the vendor's table.  The
\* quarterly tables are other tables than the annual ones (here: one period).
StockProperty(self, entry, quarterly) ==
    IF <<self.ticker, entry>> \in upstream
    THEN [exc |-> "Exception", value |-> EmptyFrame]
    ELSE IF entry = "company_info"
         THEN [exc |-> "none", value |-> CompanyInfo(self.ticker)]
         ELSE [exc |-> "none",
               value |-> Frame(RowsOf(entry),
                               IF quarterly THEN Window(MaxPeriod, MaxPeriod)
                               ELSE Window(1, MaxPeriod))]

\* try: return <property>  except Exception: return <empty>, with the exception
\* let through.
TryPropertyReraise(r, empty) == r

\* try: return <property>  except Exception: print(...); return <empty>.
TryProperty(r, empty) ==
    IF r.exc # "none" THEN [exc |-> "none", value |-> empty] ELSE r

get_income_statement(self, quarterly) ==
    TryProperty(StockProperty(self, "income_statement", quarterly), EmptyFrame)

get_balance_sheet(self, quarterly) ==
    TryProperty(StockProperty(self, "balance_sheet", quarterly), EmptyFrame)

get_cash_flow(self, quarterly) ==
    TryProperty(StockProperty(self, "cash_flow", quarterly), EmptyFrame)

get_company_info(self) ==
    TryProperty(StockProperty(self, "company_info", FALSE), EmptyInfo)

\* The dict of the four entries; an exception of a getter would leave the call.
get_all_statements(self, quarterly) ==
    LET got == [k \in Entries |->
                   CASE k = "income_statement" -> get_income_statement(self, quarterly)
                     [] k = "balance_sheet" -> get_balance_sheet(self, quarterly)
                     [] k = "cash_flow" -> get_cash_flow(self, quarterly)
                     [] k = "company_info" -> get_company_info(self)]
        order == <<"income_statement", "balance_sheet", "cash_flow", "company_info">>
        bad == {i \in 1..4 : got[order[i]].exc # "none"}
    IN IF bad # {}
       THEN [exc |-> got[order[CHOOSE i \in bad : \A j \in bad : i <= j]].exc,
             value |-> [k \in {} |-> EmptyFrame]]
       ELSE [exc |-> "none", value |-> [k \in Entries |-> got[k].value]]

NoData == [t \in {} |-> [k \in {} |-> EmptyFrame]]

\* for ticker in tickers: all_data[ticker] = extractor.get_all_statements(quarterly)
RECURSIVE FetchLoop(_, _, _, _)
FetchLoop(tickers, quarterly, i, all_data) ==
    IF i > Len(tickers) THEN [exc |-> "none", value |-> all_data]
    ELSE LET extractor == FinancialDataExtractor(tickers[i])
             got == get_all_statements(extractor, quarterly)
         IN IF got.exc # "none" THEN [exc |-> got.exc, value |-> NoData]
            ELSE FetchLoop(tickers, quarterly, i + 1,
                           [t \in DOMAIN all_data \cup {tickers[i]} |->
                               IF t = tickers[i] THEN got.value ELSE all_data[t]])

fetch_multiple_companies(tickers, quarterly) ==
    FetchLoop(tickers, quarterly, 1, NoData)

\* ------------------------------------------------------ app: the data load
\* @st.cache_data(ttl=3600): the lifetime of an entry, in hours.
MemoTTL == 1
\* load_cached_data(cache_file, cache_duration_hours=24).
DiskDuration == 24

\* The characters of a configured ticker.
Chars(ticker) ==
    CASE ticker = "AAPL" -> <<"A", "A", "P", "L">>
      [] ticker = "MSFT" -> <<"M", "S", "F", "T">>
      [] ticker = "GOOGL" -> <<"G", "O", "O", "G", "L">>

\* sep.join(tickers), as characters.
RECURSIVE Join(_, _)
Join(tickers, sep) ==
    IF tickers = <<>> THEN <<>>
    ELSE IF Len(tickers) = 1 THEN Chars(tickers[1])
    ELSE Chars(tickers[1]) \o <<sep>> \o Join(Tail(tickers), sep)

\* f"financial_data_{'_'.join(tickers)}_{'Q' if quarterly else 'A'}.pkl"
CacheFile(tickers, quarterly) ==
    <<"financial_data_">> \o Join(tickers, "_")
        \o <<"_", IF quarterly THEN "Q" ELSE "A", ".pkl">>

\* load_financial_data without the cache_data call.
load_financial_data_no_write(tickers, quarterly) ==
    LET cache_file == CacheFile(tickers, quarterly)
        cached_data == load_cached_data(cache_file, DiskDuration)
    IN IF cached_data # None
       THEN [exc |-> "none", ret |-> cached_data, fetches |-> 0, wrote |-> FALSE,
             disk |-> disk]
       ELSE LET got == fetch_multiple_companies(tickers, quarterly)
                data == [value |-> got.value, fetched_at |-> now]
            IN [exc |-> got.exc, ret |-> IF got.exc # "none" THEN None ELSE data,
                fetches |-> 1, wrote |-> FALSE, disk |-> disk]

\* The body of load_financial_data: what it returns, how many times it called
\* fetch_multiple_companies, and the files under data/cache afterwards.  The
\* fetched data carries the time of its fetch (a history field).
load_financial_data(tickers, quarterly) ==
    LET cache_file == CacheFile(tickers, quarterly)
        cached_data == load_cached_data(cache_file, DiskDuration)
    IN IF cached_data # None
       THEN [exc |-> "none", ret |-> cached_data, fetches |-> 0, wrote |-> FALSE,
             disk |-> disk]
       ELSE LET got == fetch_multiple_companies(tickers, quarterly)
                data == [value |-> got.value, fetched_at |-> now]
            IN IF got.exc # "none"
               THEN [exc |-> got.exc, ret |-> None, fetches |-> 1, wrote |-> FALSE,
                     disk |-> disk]
               ELSE [exc |-> "none", ret |-> data, fetches |-> 1, wrote |-> TRUE,
                     disk |-> cache_data(data, cache_file)]

NoMemo == [k \in {} |-> [value |-> None, stored_at |-> 0]]

\* st.cache_data: an entry under the arguments, younger than the ttl, is
\* returned without running the body; otherwise the body runs and its return
\* value is stored (an exception is not stored).
CachedLoad(entries, tickers, quarterly) ==
    LET key == <<tickers, quarterly>>
    IN IF key \in DOMAIN entries /\ now - entries[key].stored_at < MemoTTL
       THEN [exc |-> "none", ret |-> entries[key].value, ran |-> FALSE,
             fetches |-> 0, wrote |-> FALSE, disk |-> disk, memo |-> entries]
       ELSE LET r == load_financial_data(tickers, quarterly)
            IN [exc |-> r.exc, ret |-> r.ret, ran |-> TRUE,
                fetches |-> r.fetches, wrote |-> r.wrote, disk |-> r.disk,
                memo |-> IF r.exc # "none" THEN entries
                         ELSE [k \in DOMAIN entries \cup {key} |->
                                  IF k = key
                                  THEN [value |-> r.ret, stored_at |-> now]
                                  ELSE entries[k]]]

\* -------------------------------------- visualizations: the health score
\* Python's a < b on floats: False when either is NaN.
Lt(a, b) ==
    /\ ~IsNaN(a)
    /\ ~IsNaN(b)
    /\ a # b
    /\ IF a[2] = 0 THEN a = NegInf
       ELSE IF b[2] = 0 THEN b = PosInf
       ELSE a[1] * b[2] < b[1] * a[2]

\* The builtins max(a, b) and min(a, b): the first argument unless the second
\* is greater, respectively smaller.
PyMax(a, b) == IF Lt(a, b) THEN b ELSE a
PyMin(a, b) == IF Lt(b, a) THEN b ELSE a

categories == <<"Gross Margin (%)", "Operating Margin (%)", "ROE (%)", "ROA (%)",
                "Current Ratio">>

\* normalized = min(val * 50, 100) for the Current Ratio, min(max(val, 0), 100)
\* for the others.
Normalized(cat, val) ==
    IF cat = "Current Ratio"
    THEN PyMin(Mul(val, Num(50)), Num(100))
    ELSE PyMin(PyMax(val, Num(0)), Num(100))

\* One Scatterpolar trace per row of metrics_df: r = the five normalised values.
plot_financial_health_score(metrics_df) ==
    [i \in 1..Len(metrics_df.rows) |->
        [name |-> metrics_df.rows[i]["Company"],
         r |-> [c \in 1..Len(categories) |->
                   IF categories[c] \in DOMAIN metrics_df.rows[i]
                   THEN Normalized(categories[c], metrics_df.rows[i][categories[c]])
                   ELSE Num(0)]]]

\* ------------------------------------------------------------ state machine
\* Nothing handed to the metrics core.
IdleMetrics ==
    /\ companies_data = [keys |-> <<>>, items |-> [t \in {} |-> CompleteData]]
    /\ fill_method = "pad"
    /\ result = NoResult

NoLoaded == [file |-> <<>>, hours |-> 0, ret |-> None, at |-> 0]

\* The clock at its origin, no cache file, no load made.
IdleCache ==
    /\ now = 0
    /\ disk = NoFiles
    /\ written = NoFiles
    /\ loaded = NoLoaded

NoFetched == [called |-> FALSE, exc |-> "none", value |-> NoData]

\* A vendor that answers every request, no download made.
IdleFetch ==
    /\ upstream = {}
    /\ fetched = NoFetched

NoServed ==
    [tickers |-> <<>>, quarterly |-> FALSE, refreshed |-> FALSE, ran |-> FALSE,
     fetches |-> 0, wrote |-> FALSE, exc |-> "none", data |-> None, at |-> 0]

\* The page not yet run.
IdleApp ==
    /\ memo = NoMemo
    /\ selected_tickers = <<>>
    /\ quarterly_data = FALSE
    /\ served = NoServed
    /\ events = 0

\* One company with edited statements (the calculator used on its own).
InitMetrics ==
    /\ \E d \in EditedData :
          companies_data = [keys |-> <<COMPANIES[1]>>,
                            items |-> [t \in {COMPANIES[1]} |-> d]]
    /\ fill_method \in FillMethods
    /\ result = NoResult
    /\ IdleCache
    /\ IdleFetch
    /\ IdleApp

\* The selected companies with shaped statements (the comparison).
Init ==
    /\ \E s \in Selections :
          \E f \in [Range(s) -> ShapedData] :
              companies_data = [keys |-> s, items |-> f]
    /\ fill_method \in FillMethods
    /\ result = NoResult
    /\ IdleCache
    /\ IdleFetch
    /\ IdleApp

CalculatorOf(t) ==
    Calculator(companies_data.items[t]["income_statement"],
               companies_data.items[t]["balance_sheet"],
               companies_data.items[t]["cash_flow"])

\* A call that sorts the columns of the income statement in place.
CallInPlace(op, t, value) ==
    /\ result = NoResult
    /\ result' = [op |-> op, ticker |-> t, value |-> value]
    /\ companies_data' =
          [companies_data EXCEPT
              !.items[t]["income_statement"].columns =
                  SortAsc(Range(companies_data.items[t]["income_statement"].columns))]
    /\ UNCHANGED <<fill_method, cacheVars, fetchVars, appVars>>

\* A call made by the page: its return value is held until the page is done with it.
Call(op, t, value) ==
    /\ result = NoResult
    /\ result' = [op |-> op, ticker |-> t, value |-> value]
    /\ UNCHANGED <<companies_data, fill_method, cacheVars, fetchVars, appVars>>

\* The caller is done with the returned value; derived tables are not kept.
Discard ==
    /\ result # NoResult
    /\ result' = NoResult
    /\ UNCHANGED <<companies_data, fill_method, cacheVars, fetchVars, appVars>>

CalculateRevenueGrowth ==
    \E t \in Range(companies_data.keys) :
        Call("calculate_revenue_growth", t, calculate_revenue_growth(CalculatorOf(t)))

CalculateGrossMargin ==
    \E t \in Range(companies_data.keys) :
        Call("calculate_gross_margin", t, calculate_gross_margin(CalculatorOf(t)))

CalculateOperatingMargin ==
    \E t \in Range(companies_data.keys) :
        Call("calculate_operating_margin", t, calculate_operating_margin(CalculatorOf(t)))

CalculateNetMargin ==
    \E t \in Range(companies_data.keys) :
        Call("calculate_net_margin", t, calculate_net_margin(CalculatorOf(t)))

CalculateFreeCashFlow ==
    \E t \in Range(companies_data.keys) :
        Call("calculate_free_cash_flow", t, calculate_free_cash_flow(CalculatorOf(t)))

CalculateCurrentRatio ==
    \E t \in Range(companies_data.keys) :
        Call("calculate_current_ratio", t, calculate_current_ratio(CalculatorOf(t)))

CalculateDebtToEquity ==
    \E t \in Range(companies_data.keys) :
        Call("calculate_debt_to_equity", t, calculate_debt_to_equity(CalculatorOf(t)))

CalculateRoe ==
    \E t \in Range(companies_data.keys) :
        Call("calculate_roe", t, calculate_roe(CalculatorOf(t)))

CalculateRoa ==
    \E t \in Range(companies_data.keys) :
        Call("calculate_roa", t, calculate_roa(CalculatorOf(t)))

CalculateAllMetrics ==
    \E t \in Range(companies_data.keys) :
        Call("calculate_all_metrics", t, calculate_all_metrics(CalculatorOf(t)))

CreateComparison ==
    /\ result = NoResult
    /\ result' = [op |-> "create_comparison_dataframe", ticker |-> "",
                  value |-> create_comparison_dataframe(companies_data)]
    /\ UNCHANGED <<companies_data, fill_method, cacheVars, fetchVars, appVars>>

\* The page draws the health score from the comparison table it holds.
PlotFinancialHealthScore ==
    /\ result.op = "create_comparison_dataframe"
    /\ result' = [op |-> "plot_financial_health_score", ticker |-> "",
                  value |-> [exc |-> "none",
                             traces |-> plot_financial_health_score(result.value)]]
    /\ UNCHANGED <<companies_data, fill_method, cacheVars, fetchVars, appVars>>

NextMetrics ==
    \/ CalculateRevenueGrowth
    \/ CalculateGrossMargin
    \/ CalculateOperatingMargin
    \/ CalculateNetMargin
    \/ CalculateFreeCashFlow
    \/ CalculateCurrentRatio
    \/ CalculateDebtToEquity
    \/ CalculateRoe
    \/ CalculateRoa
    \/ CalculateAllMetrics
    \/ Discard

Next ==
    \/ CalculateAllMetrics
    \/ CreateComparison
    \/ PlotFinancialHealthScore
    \/ Discard

SpecMetrics == InitMetrics /\ [][NextMetrics]_vars

Spec == Init /\ [][Next]_vars

\* ------------------------------------------------- the disk cache on its own
\* The clock of the disk cache on its own stops at MaxClock hours.
MaxClock == 3

\* Two cache files, two data values, and durations around the ages in reach.
Files == {CacheFile(<<COMPANIES[1]>>, FALSE), CacheFile(<<COMPANIES[1]>>, TRUE)}
Payloads == {[payload |-> "x"], [payload |-> "y"]}
Durations == {1, MaxClock - 1}

InitCache == IdleMetrics /\ IdleCache /\ IdleFetch /\ IdleApp

CacheData ==
    \E f \in Files, data \in Payloads :
        /\ disk' = cache_data(data, f)
        /\ written' = [g \in DOMAIN written \cup {f} |->
                          IF g = f THEN [data |-> data, timestamp |-> now]
                          ELSE written[g]]
        /\ UNCHANGED <<now, loaded, metricsVars, fetchVars, appVars>>

LoadCachedData ==
    \E f \in Files, h \in Durations :
        /\ loaded' = [file |-> f, hours |-> h, ret |-> load_cached_data(f, h),
                      at |-> now]
        /\ UNCHANGED <<now, disk, written, metricsVars, fetchVars, appVars>>

\* An hour passes.
AdvanceClock ==
    /\ now < MaxClock
    /\ now' = now + 1
    /\ UNCHANGED <<disk, written, loaded, metricsVars, fetchVars, appVars>>

NextCache ==
    \/ CacheData
    \/ LoadCachedData
    \/ AdvanceClock

SpecCache == InitCache /\ [][NextCache]_vars

\* ---------------------------------------------------- the download on its own
\* The request, and the vendor failing for any of the requested entries.
InitFetch ==
    /\ IdleMetrics
    /\ IdleCache
    /\ memo = NoMemo
    /\ served = NoServed
    /\ events = 0
    /\ selected_tickers \in Selections
    /\ quarterly_data \in BOOLEAN
    /\ upstream \in SUBSET (Range(selected_tickers) \X Entries)
    /\ fetched = NoFetched

FetchMultipleCompanies ==
    /\ ~fetched.called
    /\ LET got == fetch_multiple_companies(selected_tickers, quarterly_data)
       IN fetched' = [called |-> TRUE, exc |-> got.exc, value |-> got.value]
    /\ UNCHANGED <<upstream, metricsVars, cacheVars, appVars>>

NextFetch == FetchMultipleCompanies

SpecFetch == InitFetch /\ [][NextFetch]_vars

\* ------------------------------------------------------------------ the page
\* The user does at most MaxEvents things (time passing between them included).
MaxEvents == 4

\* What the user picks in the multiselect: the first two configured companies,
\* in either order, or one of them.
Picks ==
    {s \in Selections : Range(s) \subseteq {COMPANIES[1], COMPANIES[2]}}

\* Time passes by the lifetime of a st.cache_data entry, by that of a cache
\* file, or by their difference.
Jumps == {MemoTTL, DiskDuration - MemoTTL, DiskDuration}

\* The page as first opened: both companies selected, annual data.
InitApp ==
    /\ IdleMetrics
    /\ IdleCache
    /\ IdleFetch
    /\ memo = NoMemo
    /\ selected_tickers = <<COMPANIES[1], COMPANIES[2]>>
    /\ quarterly_data = FALSE
    /\ served = NoServed
    /\ events = 0

\* One run of the script, top to bottom: the widgets are read, the Refresh
\* button clears st.cache_data when pressed, and the data is loaded.
RunScript(tickers, quarterly, refresh) ==
    \E r \in {CachedLoad(IF refresh THEN NoMemo ELSE memo, tickers, quarterly)} :
        /\ events' = events + 1
        /\ selected_tickers' = tickers
        /\ quarterly_data' = quarterly
        /\ memo' = r.memo
        /\ disk' = r.disk
        /\ written' = IF r.wrote
                      THEN [g \in DOMAIN written \cup {CacheFile(tickers, quarterly)} |->
                               IF g = CacheFile(tickers, quarterly)
                               THEN [data |-> r.ret, timestamp |-> now]
                               ELSE written[g]]
                      ELSE written
        /\ served' = [tickers |-> tickers, quarterly |-> quarterly,
                      refreshed |-> refresh, ran |-> r.ran, fetches |-> r.fetches,
                      wrote |-> r.wrote, exc |-> r.exc, data |-> r.ret, at |-> now]
        /\ UNCHANGED <<now, loaded, metricsVars, fetchVars>>

\* The page is opened, or a widget that is not in the sidebar is used.
Rerun ==
    /\ events < MaxEvents
    /\ RunScript(selected_tickers, quarterly_data, FALSE)

\* The selection of the multiselect is changed.
SelectCompanies ==
    \E s \in Picks \ {selected_tickers} :
        /\ events < MaxEvents
        /\ RunScript(s, quarterly_data, FALSE)

\* The Use Quarterly Data checkbox is ticked or unticked.
ToggleQuarterly ==
    /\ events < MaxEvents
    /\ RunScript(selected_tickers, ~quarterly_data, FALSE)

\* The Refresh Data button is pressed.
PressRefresh ==
    /\ events < MaxEvents
    /\ RunScript(selected_tickers, quarterly_data, TRUE)

TimePasses ==
    \E j \in Jumps :
        /\ events < MaxEvents
        /\ events' = events + 1
        /\ now' = now + j
        /\ UNCHANGED <<disk, written, loaded, memo, selected_tickers,
                       quarterly_data, served, metricsVars, fetchVars>>

NextApp ==
    \/ Rerun
    \/ SelectCompanies
    \/ ToggleQuarterly
    \/ PressRefresh
    \/ TimePasses

SpecApp == InitApp /\ [][NextApp]_vars

\* ------------------------------------------------------------------ claims
\* The statement set of company t and the statements in it.
DataOf(t) == companies_data.items[t]

SetMin(S) == CHOOSE x \in S : \A y \in S : x <= y

\* The columns are stored newest-first or oldest-first.
Monotone(cols) ==
    \/ \A i \in 1..(Len(cols) - 1) : cols[i] > cols[i + 1]
    \/ \A i \in 1..(Len(cols) - 1) : cols[i] < cols[i + 1]

\* (cur - prev) / prev * 100.
GrowthFormula(cur, prev) == Mul(Div(Sub(cur, prev), prev), Num(100))

\* C1: when the income statement holds 'Total Revenue' over at least two periods,
\* stored newest-first or oldest-first, calculate_revenue_growth gives NaN for the
\* chronologically earliest period and (rev[t] - rev[t-1]) / rev[t-1] * 100 for every
\* other period t, t-1 being the chronologically preceding period.  Stated where
\* the formula has a value: every revenue is a number and no revenue is zero.
C1_RevenueGrowthChronological ==
    \A t \in Range(companies_data.keys) :
        (result.op = "calculate_revenue_growth" /\ result.ticker = t) =>
            LET inc == DataOf(t)["income_statement"]
                ps == Range(inc.columns)
            IN ( /\ "Total Revenue" \in DOMAIN inc.data
                 /\ Len(inc.columns) >= 2
                 /\ Monotone(inc.columns)
                 /\ \A p \in ps : /\ IsFinite(inc.data["Total Revenue"][p])
                                  /\ inc.data["Total Revenue"][p] # Num(0) ) =>
                    LET rev == inc.data["Total Revenue"]
                        earliest == SetMin(ps)
                        before(p) == SetMax({q \in ps : q < p})
                    IN /\ DOMAIN result.value.val = ps
                       /\ IsNaN(result.value.val[earliest])
                       /\ \A p \in ps \ {earliest} :
                             result.value.val[p] = GrowthFormula(rev[p], rev[before(p)])

\* The denominator row of each ratio metric, and the statement it is read from.
Denominator(op) ==
    CASE op = "calculate_gross_margin" -> <<"income_statement", "Total Revenue">>
      [] op = "calculate_operating_margin" -> <<"income_statement", "Total Revenue">>
      [] op = "calculate_net_margin" -> <<"income_statement", "Total Revenue">>
      [] op = "calculate_current_ratio" -> <<"balance_sheet", "Current Liabilities">>
      [] op = "calculate_debt_to_equity" -> <<"balance_sheet", "Stockholders Equity">>
      [] op = "calculate_roe" -> <<"balance_sheet", "Stockholders Equity">>
      [] op = "calculate_roa" -> <<"balance_sheet", "Total Assets">>

RatioOps == {"calculate_gross_margin", "calculate_operating_margin",
             "calculate_net_margin", "calculate_current_ratio",
             "calculate_debt_to_equity", "calculate_roe", "calculate_roa"}

\* The stored value of a row at a period, NaN where the statement has no such cell.
Cell(d, k, row, p) ==
    IF row \in DOMAIN d[k].data /\ p \in Range(d[k].columns)
    THEN d[k].data[row][p] ELSE NaN

\* C2: in every series returned by a ratio metric, a period whose denominator is
\* zero has the value NaN (never an infinity or another number), and the operation
\* does not raise; for revenue growth over newest-first columns the denominator is
\* the revenue of the preceding period.
C2_ZeroDenominatorUndefined ==
    \A t \in Range(companies_data.keys) :
        /\ (result.op \in RatioOps /\ result.ticker = t) =>
              /\ result.value.exc = "none"
              /\ \A p \in DOMAIN result.value.val :
                    Cell(DataOf(t), Denominator(result.op)[1],
                         Denominator(result.op)[2], p) = Num(0)
                        => IsNaN(result.value.val[p])
        /\ (result.op = "calculate_revenue_growth" /\ result.ticker = t) =>
              LET inc == DataOf(t)["income_statement"]
                  ps == Range(inc.columns)
              IN /\ result.value.exc = "none"
                 /\ \A p \in DOMAIN result.value.val :
                       ( /\ inc.columns = SortDesc(ps)
                         /\ {q \in ps : q < p} # {}
                         /\ Cell(DataOf(t), "income_statement", "Total Revenue",
                                 SetMax({q \in ps : q < p})) = Num(0) )
                           => IsNaN(result.value.val[p])

\* The rows each metric operation needs, with the statement of each.
Required(op) ==
    CASE op = "calculate_revenue_growth" -> {<<"income_statement", "Total Revenue">>}
      [] op = "calculate_gross_margin" ->
            {<<"income_statement", "Total Revenue">>, <<"income_statement", "Gross Profit">>}
      [] op = "calculate_operating_margin" ->
            {<<"income_statement", "Total Revenue">>,
             <<"income_statement", "Operating Income">>}
      [] op = "calculate_net_margin" ->
            {<<"income_statement", "Total Revenue">>, <<"income_statement", "Net Income">>}
      [] op = "calculate_free_cash_flow" ->
            {<<"cash_flow", "Operating Cash Flow">>, <<"cash_flow", "Capital Expenditure">>}
      [] op = "calculate_current_ratio" ->
            {<<"balance_sheet", "Current Assets">>, <<"balance_sheet", "Current Liabilities">>}
      [] op = "calculate_debt_to_equity" ->
            {<<"balance_sheet", "Total Debt">>, <<"balance_sheet", "Stockholders Equity">>}
      [] op = "calculate_roe" ->
            {<<"income_statement", "Net Income">>, <<"balance_sheet", "Stockholders Equity">>}
      [] op = "calculate_roa" ->
            {<<"income_statement", "Net Income">>, <<"balance_sheet", "Total Assets">>}

MetricOps == RatioOps \cup {"calculate_revenue_growth", "calculate_free_cash_flow"}

\* Some row the operation needs is absent from its statement.
RowMissing(op, d) == \E r \in Required(op) : r[2] \notin DOMAIN d[r[1]].data

\* C3: a metric operation that lacks a required row (or whose statement is empty)
\* returns the empty series without raising; an operation whose own rows are all
\* present still returns a series over the periods of its statements, whatever
\* rows the other operations lack.
C3_MissingRowEmptySeries ==
    \A t \in Range(companies_data.keys) :
        (result.op \in MetricOps /\ result.ticker = t) =>
            IF RowMissing(result.op, DataOf(t))
            THEN result.value = EmptySeries
            ELSE /\ result.value.exc = "none"
                 /\ Range(result.value.index) =
                       UNION {Range(DataOf(t)[r[1]].columns) : r \in Required(result.op)}

\* C3 witness: ROE was asked for with 'Stockholders Equity' absent from a balance
\* sheet that has other rows, and came back empty.
C3_Witness ==
    /\ result.op = "calculate_roe"
    /\ LET d == DataOf(result.ticker)
       IN /\ "Stockholders Equity" \notin DOMAIN d["balance_sheet"].data
          /\ "Total Assets" \in DOMAIN d["balance_sheet"].data
          /\ "Net Income" \in DOMAIN d["income_statement"].data
          /\ d["income_statement"].columns # <<>>
    /\ result.value = EmptySeries

\* The nine metric columns, as the specification names them.
NineMetrics == {"Revenue Growth (%)", "Gross Margin (%)", "Operating Margin (%)",
                "Net Margin (%)", "Free Cash Flow", "Current Ratio",
                "Debt to Equity", "ROE (%)", "ROA (%)"}

\* C4: the rows of the table of calculate_all_metrics are the union of the periods
\* of the nine series; a cell is the series' value at that period, NaN where the
\* series lacks the period; the columns are the nine named metrics; the rows are in
\* strictly decreasing period order whatever the column order of the statements.
C4_OuterJoinNewestFirst ==
    \A t \in Range(companies_data.keys) :
        (result.op = "calculate_all_metrics" /\ result.ticker = t) =>
            LET table == result.value
                series == MetricsDict(CalculatorOf(t))
                rows == UNION {Range(series[m].index) : m \in NineMetrics}
            IN /\ table.exc = "none"
               /\ Range(table.index) = rows
               /\ DOMAIN table.col = NineMetrics
               /\ \A m \in NineMetrics :
                     /\ DOMAIN table.col[m] = rows
                     /\ \A p \in rows :
                           table.col[m][p] =
                               IF p \in Range(series[m].index)
                               THEN series[m].val[p] ELSE NaN
               /\ \A i \in 1..(Len(table.index) - 1) :
                     table.index[i] > table.index[i + 1]

\* C4 witness: a table of two rows was built from series of which one is not
\* stored newest-first and one, not empty, lacks a period of the table.
C4_Witness ==
    /\ result.op = "calculate_all_metrics"
    /\ Len(result.value.index) >= 2
    /\ LET series == MetricsDict(CalculatorOf(result.ticker))
       IN /\ \E m \in NineMetrics :
                 /\ Len(series[m].index) >= 2
                 /\ series[m].index[1] < series[m].index[2]
          /\ \E m \in NineMetrics :
                 /\ series[m].index # <<>>
                 /\ Range(series[m].index) # Range(result.value.index)

BalanceMetrics == {"Current Ratio", "Debt to Equity", "ROE (%)", "ROA (%)"}

IncomeMetrics == {"Revenue Growth (%)", "Gross Margin (%)", "Operating Margin (%)",
                  "Net Margin (%)"}

\* Balance sheets with every row, over every non-empty column order.
PopulatedBalanceSheets == {Frame(BalanceRows, c) : c \in ColOrders \ {<<>>}}

\* C5: with an empty balance sheet and an income statement holding its four rows,
\* the table has NaN in Current Ratio, Debt to Equity, ROE and ROA for every row,
\* has a row for every period of the income statement, and its growth and margin
\* cells equal those of the table computed with a populated balance sheet.
C5_EmptyBalanceSheet ==
    \A t \in Range(companies_data.keys) :
        ( /\ result.op = "calculate_all_metrics" /\ result.ticker = t
          /\ DataOf(t)["balance_sheet"] = EmptyFrame
          /\ IncomeRows \subseteq DOMAIN DataOf(t)["income_statement"].data ) =>
            LET table == result.value
                d == DataOf(t)
            IN /\ table.exc = "none"
               /\ \A p \in Range(table.index), m \in BalanceMetrics :
                     IsNaN(table.col[m][p])
               /\ Range(d["income_statement"].columns) \subseteq Range(table.index)
               /\ \A b \in PopulatedBalanceSheets :
                     LET other == calculate_all_metrics(
                                      Calculator(d["income_statement"], b, d["cash_flow"]))
                     IN \A p \in Range(table.index), m \in IncomeMetrics :
                           /\ p \in Range(other.index)
                           /\ table.col[m][p] = other.col[m][p]

\* C5 witness: the table of a company with an empty balance sheet and a complete
\* income statement over two periods holds a margin that is a number.
C5_Witness ==
    /\ result.op = "calculate_all_metrics"
    /\ LET d == DataOf(result.ticker)
       IN /\ d["balance_sheet"] = EmptyFrame
          /\ IncomeRows \subseteq DOMAIN d["income_statement"].data
          /\ Len(d["income_statement"].columns) >= 2
    /\ \E p \in Range(result.value.index) :
          /\ IsFinite(result.value.col["Net Margin (%)"][p])
          /\ IsNaN(result.value.col["ROE (%)"][p])

\* The metrics table of company t, computed on its own.
TableOf(t) == calculate_all_metrics(CalculatorOf(t))

HasTable(t) == TableOf(t).index # <<>>

\* The rows of a comparison table that carry the company identifier t.
RowsFor(rows, t) == LET Mine(r) == r["Company"] = t IN SelectSeq(rows, Mine)

\* C6: the comparison table has exactly one row per company whose metrics table
\* is non-empty and none for a company whose table is empty; the rows are in the
\* iteration order of the input and each carries its company in 'Company'.
C6_OneRowPerNonEmptyCompany ==
    result.op = "create_comparison_dataframe" =>
        LET expected == SelectSeq(companies_data.keys, HasTable)
            rows == result.value.rows
        IN /\ result.value.exc = "none"
           /\ Len(rows) = Len(expected)
           /\ \A i \in 1..Len(rows) : rows[i]["Company"] = expected[i]

\* C6 witness: of two selected companies the first has an empty metrics table,
\* the second does not, and the comparison holds the second only.
C6_Witness ==
    /\ result.op = "create_comparison_dataframe"
    /\ Len(companies_data.keys) = 2
    /\ ~HasTable(companies_data.keys[1])
    /\ HasTable(companies_data.keys[2])
    /\ Len(result.value.rows) = 1
    /\ result.value.rows[1]["Company"] = companies_data.keys[2]

\* The periods appearing in any of the nine metric series of company t.
PeriodsOf(t) ==
    UNION {Range(MetricsDict(CalculatorOf(t))[m].index) : m \in NineMetrics}

\* C7: every row of the comparison table holds, for each of the nine metrics, the
\* value of its own company's metrics table at that company's greatest period
\* (the maximum over the periods of its nine series).
C7_OwnLatestPeriod ==
    result.op = "create_comparison_dataframe" =>
        \A i \in 1..Len(result.value.rows) :
            LET row == result.value.rows[i]
                t == row["Company"]
                table == TableOf(t)
                periods == PeriodsOf(t)
            IN /\ t \in Range(companies_data.keys)
               /\ periods # {}
               /\ \A m \in NineMetrics : row[m] = table.col[m][SetMax(periods)]

\* C7 witness: two companies with different latest periods are both in the
\* comparison, and one of them has a metric whose latest value differs from its
\* value one period earlier.
C7_Witness ==
    /\ result.op = "create_comparison_dataframe"
    /\ Len(result.value.rows) = 2
    /\ LET a == result.value.rows[1]["Company"]
           b == result.value.rows[2]["Company"]
       IN /\ SetMax(PeriodsOf(a)) # SetMax(PeriodsOf(b))
          /\ \E t \in {a, b}, m \in NineMetrics :
                /\ Cardinality(PeriodsOf(t)) >= 2
                /\ TableOf(t).col[m][SetMax(PeriodsOf(t))]
                      # TableOf(t).col[m][SetMin(PeriodsOf(t))]
                /\ IsFinite(TableOf(t).col[m][SetMax(PeriodsOf(t))])

\* No metric of company t has a value in any period.
NothingComputable(t) ==
    LET table == TableOf(t)
    IN \A m \in NineMetrics : \A p \in Range(table.index) : IsNaN(table.col[m][p])

\* C8: a company for which every one of the nine metrics is NaN in every period
\* has no row in the comparison table.
C8_NoRowWithoutMetrics ==
    result.op = "create_comparison_dataframe" =>
        \A t \in Range(companies_data.keys) :
            NothingComputable(t) => RowsFor(result.value.rows, t) = <<>>

\* The input holding company t alone, with the data it has in companies_data.
Alone(t) == [keys |-> <<t>>, items |-> [x \in {t} |-> DataOf(t)]]

\* C9: the rows of company X in the comparison table are those of the comparison
\* of X alone: X's presence and values do not depend on the other companies.
\* (Two inputs that agree on X then agree on X's row, each agreeing with X alone.)
C9_NonInterference ==
    result.op = "create_comparison_dataframe" =>
        \A t \in Range(companies_data.keys) :
            RowsFor(result.value.rows, t) = create_comparison_dataframe(Alone(t)).rows

\* C9 witness: a company with a row holding an undefined cell was compared
\* together with a company that comes first and has other data.
C9_Witness ==
    /\ result.op = "create_comparison_dataframe"
    /\ Len(companies_data.keys) = 2
    /\ DataOf(companies_data.keys[1]) # DataOf(companies_data.keys[2])
    /\ Len(result.value.rows) = 2
    /\ \E m \in NineMetrics :
          /\ IsNaN(result.value.rows[2][m])
          /\ IsFinite(result.value.rows[1][m])

\* The operation computing each metric column.
OpOf(m) ==
    CASE m = "Revenue Growth (%)" -> "calculate_revenue_growth"
      [] m = "Gross Margin (%)" -> "calculate_gross_margin"
      [] m = "Operating Margin (%)" -> "calculate_operating_margin"
      [] m = "Net Margin (%)" -> "calculate_net_margin"
      [] m = "Free Cash Flow" -> "calculate_free_cash_flow"
      [] m = "Current Ratio" -> "calculate_current_ratio"
      [] m = "Debt to Equity" -> "calculate_debt_to_equity"
      [] m = "ROE (%)" -> "calculate_roe"
      [] m = "ROA (%)" -> "calculate_roa"

\* The periods over which metric m of statement set d has its rows.
Covered(m, d) ==
    IF RowMissing(OpOf(m), d) THEN {}
    ELSE UNION {Range(d[r[1]].columns) : r \in Required(OpOf(m))}

\* C10: calculate_all_metrics always returns a table and create_comparison_dataframe
\* always returns a comparison, never an exception; a metric whose rows are there
\* has its periods in the table whatever failed inside the other metrics, and a
\* company with such a metric has its row whatever failed for the other companies.
C10_NeverRaises ==
    /\ result.op = "calculate_all_metrics" =>
          /\ result.value.exc = "none"
          /\ \A m \in NineMetrics :
                Covered(m, DataOf(result.ticker)) \subseteq Range(result.value.index)
    /\ result.op = "create_comparison_dataframe" =>
          /\ result.value.exc = "none"
          /\ \A t \in Range(companies_data.keys) :
                (\E m \in NineMetrics : Covered(m, DataOf(t)) # {}) =>
                    Len(RowsFor(result.value.rows, t)) = 1

\* C10 witness: every metric of the first company failed inside (its statements
\* are empty), some metric of the second failed too, and the comparison still
\* holds the second company's row.
C10_Witness ==
    /\ result.op = "create_comparison_dataframe"
    /\ Len(companies_data.keys) = 2
    /\ \A m \in NineMetrics : RowMissing(OpOf(m), DataOf(companies_data.keys[1]))
    /\ \E m \in NineMetrics : RowMissing(OpOf(m), DataOf(companies_data.keys[2]))
    /\ result.value.exc = "none"
    /\ Len(result.value.rows) = 1
    /\ result.value.rows[1]["Company"] = companies_data.keys[2]

ExampleCashFlow ==
    [columns |-> <<1>>,
     data |-> [r \in CashRows |->
                  [p \in {1} |-> IF r = "Operating Cash Flow" THEN Num(500)
                                 ELSE Num(-120)]]]

\* C12: when the cash-flow statement holds both rows, calculate_free_cash_flow
\* returns, for every period of the statement in which both cells are numbers,
\* Operating Cash Flow + Capital Expenditure (the stored sign kept); 500 and -120
\* give 380.
C12_FreeCashFlowSum ==
    /\ calculate_free_cash_flow(Calculator(EmptyFrame, EmptyFrame, ExampleCashFlow)).val[1]
          = Num(380)
    /\ \A t \in Range(companies_data.keys) :
          (result.op = "calculate_free_cash_flow" /\ result.ticker = t) =>
              LET d == DataOf(t)
              IN \A p \in Periods :
                    LET ocf == Cell(d, "cash_flow", "Operating Cash Flow", p)
                        capex == Cell(d, "cash_flow", "Capital Expenditure", p)
                    IN (IsFinite(ocf) /\ IsFinite(capex)) =>
                          /\ p \in DOMAIN result.value.val
                          /\ result.value.val[p] = Add(ocf, capex)

\* C12 witness: free cash flow was computed over two periods, in one of which
\* the capital expenditure is negative and the result is a number.
C12_Witness ==
    /\ result.op = "calculate_free_cash_flow"
    /\ Len(result.value.index) >= 2
    /\ \E p \in Range(result.value.index) :
          /\ IsFinite(result.value.val[p])
          /\ Cell(DataOf(result.ticker), "cash_flow", "Capital Expenditure", p)[1] < 0

\* The numerator row of each ratio metric, and the statement it is read from.
Numerator(op) ==
    CASE op = "calculate_gross_margin" -> <<"income_statement", "Gross Profit">>
      [] op = "calculate_operating_margin" -> <<"income_statement", "Operating Income">>
      [] op = "calculate_net_margin" -> <<"income_statement", "Net Income">>
      [] op = "calculate_current_ratio" -> <<"balance_sheet", "Current Assets">>
      [] op = "calculate_debt_to_equity" -> <<"balance_sheet", "Total Debt">>
      [] op = "calculate_roe" -> <<"income_statement", "Net Income">>
      [] op = "calculate_roa" -> <<"income_statement", "Net Income">>

\* The ratio metrics that are percentages.
PercentOps == {"calculate_gross_margin", "calculate_operating_margin",
               "calculate_net_margin", "calculate_roe", "calculate_roa"}

\* The income statement of the specification's example, over the given columns:
\* Total Revenue = 100, 120 and Gross Profit = 40, 54 in periods 1 and 2.
ExampleIncome(cols) ==
    [columns |-> cols,
     data |-> [r \in {"Total Revenue", "Gross Profit"} |->
                  [p \in {1, 2} |->
                      IF r = "Total Revenue" THEN Num(IF p = 1 THEN 100 ELSE 120)
                      ELSE Num(IF p = 1 THEN 40 ELSE 54)]]]

\* C13: in the series of a ratio metric, every period p in which numerator and
\* denominator are both numbers and the denominator is not zero has the value
\* numerator[p] / denominator[p] (times 100 for the percentage metrics), the two
\* taken at the same period label whatever the column order of their statements;
\* the example gives the gross margins 40 and 45.
C13_RatioByPeriodLabel ==
    /\ \A cols \in {<<1, 2>>, <<2, 1>>} :
          LET gm == calculate_gross_margin(
                        Calculator(ExampleIncome(cols), EmptyFrame, EmptyFrame))
          IN gm.val[1] = Num(40) /\ gm.val[2] = Num(45)
    /\ \A t \in Range(companies_data.keys) :
          (result.op \in RatioOps /\ result.ticker = t) =>
              LET d == DataOf(t)
              IN \A p \in Periods :
                    LET n == Cell(d, Numerator(result.op)[1], Numerator(result.op)[2], p)
                        dn == Cell(d, Denominator(result.op)[1],
                                   Denominator(result.op)[2], p)
                    IN (IsFinite(n) /\ IsFinite(dn) /\ dn # Num(0)) =>
                          /\ p \in DOMAIN result.value.val
                          /\ result.value.val[p] =
                                IF result.op \in PercentOps
                                THEN Mul(Div(n, dn), Num(100))
                                ELSE Div(n, dn)

\* C13 witness: ROE was computed from an income statement and a balance sheet
\* whose columns are in different orders, and has a number in two periods.
C13_Witness ==
    /\ result.op = "calculate_roe"
    /\ LET d == DataOf(result.ticker)
       IN /\ Len(d["income_statement"].columns) >= 2
          /\ Range(d["income_statement"].columns) = Range(d["balance_sheet"].columns)
          /\ d["income_statement"].columns # d["balance_sheet"].columns
    /\ Cardinality({p \in DOMAIN result.value.val : IsFinite(result.value.val[p])}) >= 2

\* What load_cached_data has to return according to the history of writes: the
\* data last written to the file when that write is less than the duration old.
FreshlyWritten(cache_file, cache_duration_hours) ==
    IF /\ cache_file \in DOMAIN written
       /\ now - written[cache_file].timestamp < cache_duration_hours
    THEN written[cache_file].data
    ELSE None

\* C14: whatever cache_data and load_cached_data calls and clock advances came
\* before, load_cached_data(f, d) returns the data last written to f when f was
\* written and that write is strictly less than d hours old at the load, and
\* None otherwise; this holds of every load that can be made and of the one made.
C14_LoadIffYoungerThanDuration ==
    /\ [][LoadCachedData =>
            loaded'.ret = FreshlyWritten(loaded'.file, loaded'.hours)]_vars
    /\ [](\A f \in Files, d \in Durations :
            load_cached_data(f, d) = FreshlyWritten(f, d))

\* C14 witness: a load of a file written exactly the duration ago returned None.
C14_Witness ==
    /\ loaded.file \in DOMAIN disk
    /\ loaded.at = now
    /\ loaded.hours > 0
    /\ now - disk[loaded.file].timestamp = loaded.hours
    /\ loaded.ret = None

\* The requests of the page: a selection and the quarterly flag.
Requests == Picks \X BOOLEAN

\* C15: requests that differ in ticker set or quarterly flag have different
\* cache files and different st.cache_data keys, and requests with the same
\* ticker set and flag use the same cache entry whatever the order of the
\* tickers: a run fetches only when no unexpired file exists for its ticker set
\* and flag under any order.
C15_KeyedByCompanySet ==
    /\ \A r1, r2 \in Requests :
          (Range(r1[1]) # Range(r2[1]) \/ r1[2] # r2[2]) =>
              /\ CacheFile(r1[1], r1[2]) # CacheFile(r2[1], r2[2])
              /\ r1 # r2
    /\ (served.fetches = 1 /\ served.at = now) =>
          \A s \in Picks :
              (Range(s) = Range(served.tickers) /\ s # served.tickers) =>
                  load_cached_data(CacheFile(s, served.quarterly), DiskDuration) = None

\* C16: the load of the run in which Refresh Data was pressed fetches the
\* statements anew: fetch_multiple_companies is called and the data shown was
\* fetched in that run.
C16_RefreshFetchesAnew ==
    served.refreshed =>
        /\ served.fetches = 1
        /\ served.data # None
        /\ served.data.fetched_at = served.at

\* C17: the data the page shows was fetched at most one hour (the lifetime of a
\* st.cache_data entry) before it was served.
C17_ServedWithinOneHour ==
    served.data # None => served.at - served.data.fetched_at <= MemoTTL

\* C18: fetch_multiple_companies does not raise and returns an entry for every
\* requested ticker; each entry holds the three statements and the company
\* info, which are the vendor's where its request succeeded and an empty table
\* (an empty mapping for the info) where it failed.
C18_FetchNeverPropagates ==
    fetched.called =>
        /\ fetched.exc = "none"
        /\ DOMAIN fetched.value = Range(selected_tickers)
        /\ \A t \in Range(selected_tickers) :
              /\ DOMAIN fetched.value[t] = Entries
              /\ \A k \in StatementKeys :
                    fetched.value[t][k] =
                        IF <<t, k>> \in upstream THEN EmptyFrame
                        ELSE StockProperty(FinancialDataExtractor(t), k,
                                           quarterly_data).value
              /\ fetched.value[t]["company_info"] =
                    IF <<t, "company_info">> \in upstream THEN EmptyInfo
                    ELSE CompanyInfo(t)

\* C18 witness: two tickers were fetched, every request failed for the first
\* and none for the second, and the second has its tables.
C18_Witness ==
    /\ fetched.called
    /\ Len(selected_tickers) = 2
    /\ upstream = {selected_tickers[1]} \X Entries
    /\ fetched.value[selected_tickers[1]]["income_statement"] = EmptyFrame
    /\ fetched.value[selected_tickers[2]]["income_statement"] # EmptyFrame
    /\ fetched.value[selected_tickers[2]]["company_info"] # EmptyInfo

\* A step in which the script ran and the body of load_financial_data was
\* executed (st.cache_data had no entry in force).
BodyRan ==
    /\ events' = events + 1
    /\ now' = now
    /\ served'.ran

\* C19: when the body of load_financial_data runs with an unexpired cache file
\* for its key, it returns the cached data, fetches nothing and writes nothing;
\* otherwise it fetches exactly once and writes what it fetched under the same
\* key with the time of the write, leaving the other files alone; and a load
\* following at once returns that same data without fetching.
C19_CacheHitOrFetchAndWrite ==
    /\ [][BodyRan =>
            LET file == CacheFile(served'.tickers, served'.quarterly)
                cached == load_cached_data(file, DiskDuration)
            IN IF cached # None
               THEN /\ served'.data = cached
                    /\ served'.fetches = 0
                    /\ ~served'.wrote
                    /\ disk' = disk
               ELSE /\ served'.fetches = 1
                    /\ served'.wrote
                    /\ DOMAIN disk' = DOMAIN disk \cup {file}
                    /\ disk'[file] = [data |-> served'.data, timestamp |-> now]
                    /\ \A f \in DOMAIN disk \ {file} : disk'[f] = disk[f]]_vars
    /\ []((served.ran /\ served.at = now) =>
            LET again == load_financial_data(served.tickers, served.quarterly)
            IN /\ again.ret = served.data
               /\ again.fetches = 0
               /\ ~again.wrote)

\* C19 witness: the body ran after the st.cache_data entry had expired and
\* returned, without fetching, data fetched earlier.
C19_Witness ==
    /\ served.ran
    /\ served.fetches = 0
    /\ served.data # None
    /\ served.data.fetched_at < served.at

\* a <= b on floats.
Le(a, b) == Lt(a, b) \/ (a = b /\ ~IsNaN(a))

\* C20: each of the five values plotted for a row of the comparison table lies
\* in [0, 100] when the row's value is a number, the Current Ratio being
\* ratio * 50 capped at 100.
C20_HealthScoreWithinScale ==
    result.op = "plot_financial_health_score" =>
        LET rows == create_comparison_dataframe(companies_data).rows
        IN \A i \in 1..Len(rows), c \in 1..Len(categories) :
              LET val == rows[i][categories[c]]
                  r == result.value.traces[i].r[c]
              IN IsFinite(val) =>
                    /\ Le(Num(0), r)
                    /\ Le(r, Num(100))
                    /\ categories[c] = "Current Ratio" =>
                          r = PyMin(Mul(val, Num(50)), Num(100))

====
